---- MODULE Spec2Model ----
(***************************************************************************)
(* CUDASymmetricMemory: block registry and allocator, store-mediated       *)
(* rendezvous, and the device-side signal / barrier primitives.            *)
(*                                                                         *)
(* One module, several specifications over the same variables:             *)
(*   SpecChannel   check_channel applied to a drawn (channel, world_size)  *)
(*   SpecValidate  validate_rendezvous_requests applied to a drawn list    *)
(*   SpecBuffer    get_buffer's size check applied to drawn arguments      *)
(*   SpecBarrier   barrier() host calls and barrier_kernel lanes           *)
(*   FairBarrier   SpecBarrier with fair lane scheduling                   *)
(*   SpecSignal    put_signal / wait_signal between two streams            *)
(*   SpecSlot      release_signal / acquire_signal callers on one slot     *)
(*   Spec          alloc + rendezvous over the store, one thread per rank  *)
(*   SpecLife      Spec with free and the release of references            *)
(*   FairLife      SpecLife with host threads that run on inside a call    *)
(*   SpecGroups    Spec with processes that rendezvous in other groups too *)
(*   SpecAlloc     one process: alloc over many sizes, rendezvous, free    *)
(*   SpecThreads   store_all_gather entered by several host threads        *)
(*   SpecFree      free entered by several host threads                    *)
(***************************************************************************)
EXTENDS Integers, Sequences, FiniteSets, TLC

VARIABLES
  world_size,        \* group_info.world_size / world_size_
  \* ---- pure-function harnesses
  chan_arg,          \* the channel handed to check_channel
  chan_res,          \* "none" | "ok" | "neg_error" | "max_error"
  reqs_arg,          \* the request list handed to validate_rendezvous_requests
  val_res,           \* "none" | "ok" | "error"
  buf_arg,           \* the arguments and buffer_size_ handed to get_buffer
  buf_res,           \* "none" | "ok" | "size_exceeded"
  \* ---- device side
  channel,           \* the channel every rank passes to barrier / put / wait
  signal_pads,       \* signal_pads[r][w]: word w of rank r's signal pad
  lane_pc,           \* lane_pc[r][t]: position of lane t of rank r's kernel
  launched,          \* launched[r]: barrier kernels rank r has launched
  host_err,          \* host_err[r]: barrier() on rank r raised (check_channel)
  \* ---- put_signal / wait_signal between a sending and a receiving stream
  sig,               \* [src, dst]: the ranks of the two streams
  snd,               \* sending stream: [pc, i], i-th message in progress
  rcv,               \* receiving stream: [pc, i, obs], obs: the values read
  buf,               \* the word of dst's buffer that src writes
  \* ---- host side, one process per rank
  ptr_to_block,      \* ptr_to_block[p]: the allocator's registry, ptr -> Block
  store_comm_seq_id, \* store_comm_seq_id[p]: the process's static counter
  store,             \* the coordination store: key <<seq, rank>> -> payload
  call,              \* call[p]: the host thread's rendezvous call and its locals
  fds,               \* fds[p]: open descriptors of process p, fd -> allocation
  vmap,              \* vmap[p]: mapped ranges of process p, address -> [alloc, size]
  symm_mems,         \* symm_mems[p]: live CUDASymmetricMemory objects, id -> fields
  held,              \* held[p]: the objects the caller in process p holds a reference to
  driver,            \* driver[p]: the driver's handles, reservations and failed check
  last_alloc,        \* last_alloc[p]: the arguments and result of p's latest alloc()
  th                 \* th[t]: host threads of one process inside store_all_gather / free

fnVars  == <<chan_arg, chan_res, reqs_arg, val_res, buf_arg, buf_res>>
barVars == <<lane_pc, launched, host_err>>
sigVars == <<sig, snd, rcv, buf>>
devVars == <<channel, signal_pads, barVars, sigVars>>
hostVars == <<ptr_to_block, store_comm_seq_id, store, call, fds, vmap,
              symm_mems, held, driver, last_alloc, th>>
vars    == <<world_size, fnVars, devVars, hostVars>>

----------------------------------------------------------------------------
(* Bounds of the model *)

MaxWorld == 2

(* Program constants *)

signal_pad_size == 2048
SizeofUint32 == 4
C10_WARP_SIZE == 32

Ranks == 0 .. world_size - 1

----------------------------------------------------------------------------
(* check_channel *)

check_channel(ch, ws) ==
  IF ~(ch >= 0) THEN "neg_error"
  ELSE LET num_channels == (signal_pad_size \div SizeofUint32) * ws
       IN  IF ch < num_channels THEN "ok" ELSE "max_error"

FnIdle ==
  /\ chan_arg = 0
  /\ chan_res = "none"
  /\ reqs_arg = <<>>
  /\ val_res = "none"
  /\ buf_arg = <<>>
  /\ buf_res = "none"

DevIdle ==
  /\ channel = 0
  /\ signal_pads = <<>>
  /\ lane_pc = <<>>
  /\ launched = <<>>
  /\ host_err = <<>>
  /\ sig = <<>>
  /\ snd = <<>>
  /\ rcv = <<>>
  /\ buf = 0

HostIdle ==
  /\ ptr_to_block = <<>>
  /\ store_comm_seq_id = <<>>
  /\ store = <<>>
  /\ call = <<>>
  /\ fds = <<>>
  /\ vmap = <<>>
  /\ symm_mems = <<>>
  /\ held = <<>>
  /\ driver = <<>>
  /\ last_alloc = <<>>
  /\ th = <<>>

ChannelArgs == -2 .. (signal_pad_size \div SizeofUint32) * MaxWorld + 2

InitChannel ==
  /\ world_size \in 1 .. MaxWorld
  /\ chan_arg \in ChannelArgs
  /\ chan_res = "none"
  /\ reqs_arg = <<>>
  /\ val_res = "none"
  /\ buf_arg = <<>>
  /\ buf_res = "none"
  /\ DevIdle
  /\ HostIdle

CheckChannel ==
  /\ chan_res = "none"
  /\ chan_res' = check_channel(chan_arg, world_size)
  /\ UNCHANGED <<world_size, chan_arg, reqs_arg, val_res, buf_arg, buf_res,
                 devVars, hostVars>>

NextChannel == CheckChannel

SpecChannel == InitChannel /\ [][NextChannel]_vars

\* C4: check_channel accepts exactly the channels of [0, channel_count),
\* channel_count = signal_pad_size / 4 / world_size, for every world size.
C4_AcceptsExactlyChannelCount ==
  chan_res # "none" =>
    ((chan_res = "ok") <=>
       (0 <= chan_arg /\
        chan_arg < (signal_pad_size \div 4) \div world_size))

----------------------------------------------------------------------------
(* validate_rendezvous_requests *)

\* RendezvousRequest
Request(device_idx, block_fd, pid, block_size, buffer_size, signal_pad_offset) ==
  [device_idx |-> device_idx, block_fd |-> block_fd, pid |-> pid,
   block_size |-> block_size, buffer_size |-> buffer_size,
   signal_pad_offset |-> signal_pad_offset]

\* reqs[r] of the code is reqs[r + 1] here (sequences start at 1).
\* validation that never compares the signal pad offsets
validate_rendezvous_requests_NoOffsetCheck(reqs, ws) ==
  IF Len(reqs) # ws THEN FALSE
  ELSE LET device_indices == {reqs[i].device_idx : i \in 1 .. Len(reqs)}
       IN  IF Cardinality(device_indices) < ws THEN FALSE
           ELSE \A r \in 1 .. ws - 1 :
                  /\ reqs[r + 1].block_size = reqs[1].block_size
                  /\ reqs[r + 1].buffer_size = reqs[1].buffer_size

\* validation that never compares the buffer sizes
validate_rendezvous_requests_NoBufferCheck(reqs, ws) ==
  IF Len(reqs) # ws THEN FALSE
  ELSE LET device_indices == {reqs[i].device_idx : i \in 1 .. Len(reqs)}
       IN  IF Cardinality(device_indices) < ws THEN FALSE
           ELSE \A r \in 1 .. ws - 1 :
                  /\ reqs[r + 1].block_size = reqs[1].block_size
                  /\ reqs[r + 1].signal_pad_offset = reqs[1].signal_pad_offset

validate_rendezvous_requests(reqs, ws) ==
  IF Len(reqs) # ws THEN FALSE
  ELSE LET device_indices == {reqs[i].device_idx : i \in 1 .. Len(reqs)}
       IN  IF Cardinality(device_indices) < ws THEN FALSE
           ELSE \A r \in 1 .. ws - 1 :
                  /\ reqs[r + 1].block_size = reqs[1].block_size
                  /\ reqs[r + 1].buffer_size = reqs[1].buffer_size
                  /\ reqs[r + 1].signal_pad_offset = reqs[1].signal_pad_offset

\* <<block_size, buffer_size, signal_pad_offset>> of the drawn requests: a base
\* triple and one variant per field
ReqSizes == {<<4096, 16, 16>>, <<8192, 16, 16>>, <<4096, 8, 16>>, <<4096, 16, 32>>}

ReqChoices ==
  {Request(d, 3, 100, s[1], s[2], s[3]) : d \in 0 .. MaxWorld - 1, s \in ReqSizes}

ReqLists == UNION {[1 .. n -> ReqChoices] : n \in 0 .. MaxWorld + 1}

InitValidate ==
  /\ world_size \in 1 .. MaxWorld
  /\ chan_arg = 0
  /\ chan_res = "none"
  /\ reqs_arg \in ReqLists
  /\ val_res = "none"
  /\ buf_arg = <<>>
  /\ buf_res = "none"
  /\ DevIdle
  /\ HostIdle

Validate ==
  /\ val_res = "none"
  /\ val_res' = IF validate_rendezvous_requests(reqs_arg, world_size)
                THEN "ok" ELSE "error"
  /\ UNCHANGED <<world_size, chan_arg, chan_res, reqs_arg, buf_arg, buf_res,
                 devVars, hostVars>>

NextValidate == Validate

SpecValidate == InitValidate /\ [][NextValidate]_vars

\* C6: a gathered request list is accepted if and only if its length is
\* world_size, its device indices are pairwise distinct, and block_size,
\* buffer_size and signal_pad_offset agree across all requests.
C6_ValidateAcceptsIff ==
  val_res # "none" =>
    ((val_res = "ok") <=>
       /\ Len(reqs_arg) = world_size
       /\ \A i, j \in 1 .. Len(reqs_arg) :
            /\ i # j => reqs_arg[i].device_idx # reqs_arg[j].device_idx
            /\ reqs_arg[i].block_size = reqs_arg[j].block_size
            /\ reqs_arg[i].buffer_size = reqs_arg[j].buffer_size
            /\ reqs_arg[i].signal_pad_offset = reqs_arg[j].signal_pad_offset)

\* Two ranks report the same device index, every size agrees: rejected.
C6_Witness ==
  /\ val_res = "error"
  /\ world_size >= 2
  /\ Len(reqs_arg) = world_size
  /\ reqs_arg[1].device_idx = reqs_arg[2].device_idx
  /\ \A i \in 1 .. Len(reqs_arg) :
       /\ reqs_arg[i].block_size = reqs_arg[1].block_size
       /\ reqs_arg[i].buffer_size = reqs_arg[1].buffer_size
       /\ reqs_arg[i].signal_pad_offset = reqs_arg[1].signal_pad_offset

----------------------------------------------------------------------------
(* CUDASymmetricMemory::get_buffer: the size check of lines 191-201 *)

MaxDims == 2

INT_MAX == 2147483647
INT_MIN == -INT_MAX - 1

\* An int64_t element of sizes, written in two parts: the value
\* hi * 2^16 + lo with 0 <= lo < 2^16 (the checker's integers are 32 bits wide)
Int64(hi, lo) == [hi |-> hi, lo |-> lo]

\* The conversion int64_t -> int that calling std::multiplies<int> applies to
\* an element of sizes: the low 32 bits, read as two's complement
ToInt(x) ==
  LET h == x.hi % (2 ^ 16)
  IN  (IF h >= 2 ^ 15 THEN h - 2 ^ 16 ELSE h) * (2 ^ 16) + x.lo

Abs(a) == IF a < 0 THEN -a ELSE a

\* a * b is representable in int
MulFits(a, b) ==
  IF a = 0 \/ b = 0 THEN TRUE
  ELSE IF a = INT_MIN THEN b = 1
  ELSE IF b = INT_MIN THEN a = 1
  ELSE IF (a > 0) = (b > 0)
  THEN Abs(a) <= INT_MAX \div Abs(b)
  ELSE Abs(a) <= (INT_MAX \div Abs(b)) +
                 (IF INT_MAX % Abs(b) = Abs(b) - 1 THEN 1 ELSE 0)

\* std::multiplies<int>()(acc, x): signed overflow is undefined behaviour
multiplies(acc, x) ==
  IF acc.ub THEN acc
  ELSE IF MulFits(acc.val, ToInt(x))
  THEN [ub |-> FALSE, val |-> acc.val * ToInt(x)]
  ELSE [ub |-> TRUE, val |-> 0]

\* std::accumulate(sizes.begin(), sizes.end(), 1, std::multiplies<int>()):
\* the accumulator has the type of the initial value 1, int
RECURSIVE accumulate(_, _)
accumulate(sizes, init) ==
  IF sizes = <<>> THEN init
  ELSE accumulate(Tail(sizes), multiplies(init, Head(sizes)))

\* req_size <= buffer_size_, req_size = (numel + storage_offset) * element_size
\* in size_t: a negative sum converts to a value above 2^63, and its product
\* with element_size stays above every buffer size; a sum n >= 0 gives
\* n * element_size, which is <= buffer_size iff n <= buffer_size / element_size
ReqSizeFits(numel, storage_offset, element_size, buffer_size) ==
  LET n == numel + storage_offset
  IN  IF n < 0 THEN FALSE ELSE n <= buffer_size \div element_size

\* The outcomes of get_buffer(rank, sizes, dtype, storage_offset) on an object
\* with buffer_size_ = buffer_size, element_size = c10::elementSize(dtype);
\* after undefined behaviour either outcome may be produced
get_buffer(sizes, element_size, storage_offset, buffer_size) ==
  LET numel == accumulate(sizes, [ub |-> FALSE, val |-> 1])
  IN  IF numel.ub THEN {"ok", "size_exceeded"}
      ELSE IF ReqSizeFits(numel.val, storage_offset, element_size, buffer_size)
      THEN {"ok"}
      ELSE {"size_exceeded"}

\* The drawn shape elements: 0, 1, 2, 1024, 1025, 2^16, 2^31, 2^32, 2^32 + 1,
\* 2^32 + 1024
DimValues ==
  {Int64(0, 0), Int64(0, 1), Int64(0, 2), Int64(0, 1024), Int64(0, 1025),
   Int64(1, 0), Int64(2 ^ 15, 0), Int64(2 ^ 16, 0), Int64(2 ^ 16, 1),
   Int64(2 ^ 16, 1024)}

Shapes == UNION {[1 .. n -> DimValues] : n \in 0 .. MaxDims}

ElementSizes == {1, 2, 4, 8}

BufferSizes == {8, 4096}

InitBuffer ==
  /\ world_size = 1
  /\ chan_arg = 0
  /\ chan_res = "none"
  /\ reqs_arg = <<>>
  /\ val_res = "none"
  /\ buf_arg \in [sizes : Shapes, element_size : ElementSizes,
                  storage_offset : {0}, buffer_size : BufferSizes]
  /\ buf_res = "none"
  /\ DevIdle
  /\ HostIdle

GetBuffer ==
  /\ buf_res = "none"
  /\ buf_res' \in get_buffer(buf_arg.sizes, buf_arg.element_size,
                             buf_arg.storage_offset, buf_arg.buffer_size)
  /\ UNCHANGED <<world_size, chan_arg, chan_res, reqs_arg, val_res, buf_arg,
                 devVars, hostVars>>

NextBuffer == GetBuffer

SpecBuffer == InitBuffer /\ [][NextBuffer]_vars

\* numel(shape) * element_size <= limit over the mathematical integers, limit
\* at most INT_MAX: a zero extent makes the product 0; otherwise the extents
\* from k on fit iff those after k fit within limit / sizes[k]
RECURSIVE ProductFits(_, _)
ProductFits(sizes, limit) ==
  IF \E k \in 1 .. Len(sizes) : sizes[k] = Int64(0, 0) THEN TRUE
  ELSE IF sizes = <<>> THEN 1 <= limit
  ELSE LET d == Head(sizes)
           q == IF d.hi >= 2 ^ 15 THEN 0
                ELSE limit \div (d.hi * (2 ^ 16) + d.lo)
       IN  ProductFits(Tail(sizes), q)

\* C13: get_buffer(r, shape, dtype, 0) succeeds if and only if
\* numel(shape) * elemSize(dtype) <= buffer_size, for every shape, shapes whose
\* element count does not fit in a 32-bit signed integer included; otherwise
\* it fails with the size-exceeded error.
C13_GetBufferIff ==
  buf_res # "none" =>
    ((buf_res = "ok") <=>
       ProductFits(buf_arg.sizes, buf_arg.buffer_size \div buf_arg.element_size))

----------------------------------------------------------------------------
(* Device side: release_signal, acquire_signal, barrier_kernel *)

MaxChannel == 0
MaxRounds == 2

\* The words of a pad that the modelled channels address
PadWords == 0 .. world_size * (MaxChannel + 1) - 1

\* release_signal as a plain store of 1, with no wait for the slot to read 0
release_signal_NoWait(pad, w) ==
  [done |-> TRUE, pads |-> [signal_pads EXCEPT ![pad][w] = 1]]

\* One iteration of release_signal(addr)'s loop, addr = word w of rank pad's
\* signal pad: val = *signal; the loop is left when val = 0 and
\* atomicCAS_system(addr, 0, 1) returns 0, which stores 1. Every other iteration
\* (val # 0, or the CAS finding a non-zero word) leaves the word as it is, so
\* an iteration is one step, taken at its CAS.
release_signal(pad, w) ==
  IF signal_pads[pad][w] # 0
  THEN [done |-> FALSE, pads |-> signal_pads]
  ELSE [done |-> TRUE, pads |-> [signal_pads EXCEPT ![pad][w] = 1]]

\* acquire_signal as a single atomicCAS_system(addr, 1, 0) with no spin loop
acquire_signal_NoSpin(pad, w) ==
  [done |-> TRUE,
   pads |-> IF signal_pads[pad][w] = 1
            THEN [signal_pads EXCEPT ![pad][w] = 0] ELSE signal_pads]

\* acquire_signal leaving the loop on val = 1 without storing 0
acquire_signal_NoReset(pad, w) ==
  IF signal_pads[pad][w] # 1
  THEN [done |-> FALSE, pads |-> signal_pads]
  ELSE [done |-> TRUE, pads |-> signal_pads]

\* One iteration of acquire_signal(addr)'s loop: left when val = 1 and
\* atomicCAS_system(addr, 1, 0) returns 1, which stores 0.
acquire_signal(pad, w) ==
  IF signal_pads[pad][w] # 1
  THEN [done |-> FALSE, pads |-> signal_pads]
  ELSE [done |-> TRUE, pads |-> [signal_pads EXCEPT ![pad][w] = 0]]

\* the slot index computed without the world_size stride of a channel
SlotAt_NoStride(ch, peer) == ch + peer

\* signal_pads[...] + world_size * channel + peer, as a word index into the pad
SlotAt(ch, peer) == world_size * ch + peer

\* the slot of peer in the channel the kernels are launched with
Slot(peer) == SlotAt(channel, peer)

\* The word lane target_rank = t of rank r releases: signal_pads[target_rank] +
\* world_size * channel + rank
ReleaseAddr(r, t) == [pad |-> t, w |-> Slot(r)]

\* The lane acquires the word it has just released
AcquireAddr_AsRelease(r, t) == ReleaseAddr(r, t)

\* The lane acquires the slot indexed by its own rank instead of target_rank
AcquireAddr_OwnRank(r, t) == [pad |-> r, w |-> Slot(r)]

\* The word the lane then acquires: signal_pads[rank] + world_size * channel +
\* target_rank
AcquireAddr(r, t) == [pad |-> r, w |-> Slot(t)]

\* The lanes of the one-warp block that pass threadIdx.x < world_size
Lanes == {t \in 0 .. C10_WARP_SIZE - 1 : t < world_size}

KernelDone(r) == \A t \in Lanes : lane_pc[r][t] = "exit"

InitBarrier ==
  /\ world_size \in 1 .. MaxWorld
  /\ FnIdle
  /\ channel \in -1 .. MaxChannel
  /\ signal_pads = [r \in Ranks |-> [w \in PadWords |-> 0]]
  /\ lane_pc = [r \in Ranks |-> [t \in Lanes |-> "exit"]]
  /\ launched = [r \in Ranks |-> 0]
  /\ host_err = [r \in Ranks |-> FALSE]
  /\ sig = <<>>
  /\ snd = <<>>
  /\ rcv = <<>>
  /\ buf = 0
  /\ HostIdle

\* CUDASymmetricMemory::barrier(channel) on rank r; the kernel starts when the
\* stream's previous kernel has completed.
Barrier(r) ==
  /\ launched[r] < MaxRounds
  /\ ~host_err[r]
  /\ KernelDone(r)
  /\ IF check_channel(channel, world_size) = "ok"
     THEN /\ launched' = [launched EXCEPT ![r] = @ + 1]
          /\ lane_pc' = [lane_pc EXCEPT ![r] =
                           [t \in Lanes |-> "release"]]
          /\ UNCHANGED host_err
     ELSE /\ host_err' = [host_err EXCEPT ![r] = TRUE]
          /\ UNCHANGED <<launched, lane_pc>>
  /\ UNCHANGED <<world_size, hostVars, fnVars, sigVars, channel, signal_pads>>

\* Lane target_rank = t of barrier_kernel on rank r takes one step
barrier_kernel(r, t) ==
  /\ lane_pc[r][t] # "exit"
  /\ LET st == IF lane_pc[r][t] = "release"
               THEN release_signal(ReleaseAddr(r, t).pad, ReleaseAddr(r, t).w)
               ELSE acquire_signal(AcquireAddr(r, t).pad, AcquireAddr(r, t).w)
         nxt == IF ~st.done THEN lane_pc[r][t]
                ELSE IF lane_pc[r][t] = "release" THEN "acquire"
                ELSE "exit"
     IN  /\ signal_pads' = st.pads
         /\ lane_pc' = [lane_pc EXCEPT ![r][t] = nxt]
  /\ UNCHANGED <<world_size, hostVars, fnVars, sigVars, channel, launched, host_err>>

NextBarrier ==
  \/ \E r \in Ranks : Barrier(r)
  \/ \E r \in Ranks : \E t \in Lanes : barrier_kernel(r, t)

SpecBarrier == InitBarrier /\ [][NextBarrier]_vars

\* Lanes of a running kernel are scheduled fairly (independent thread
\* scheduling; the kernels of different ranks run on different devices)
FairBarrier ==
  /\ SpecBarrier
  /\ \A r \in 0 .. MaxWorld - 1 : \A t \in 0 .. MaxWorld - 1 :
       WF_vars(r \in Ranks /\ t \in Lanes /\ barrier_kernel(r, t))

\* barrier kernels of rank r that have completed
Completed(r) == IF KernelDone(r) THEN launched[r] ELSE launched[r] - 1

\* releases rank t's lanes have completed on the slot directed at rank r
Released(t, r) ==
  IF lane_pc[t][r] = "release" THEN launched[t] - 1 ELSE launched[t]

AllLaunched == CHOOSE k \in 0 .. MaxRounds :
                 /\ \A r \in Ranks : launched[r] >= k
                 /\ \E r \in Ranks : launched[r] = k
AllCompleted == CHOOSE k \in 0 .. MaxRounds :
                  /\ \A r \in Ranks : Completed(r) >= k
                  /\ \E r \in Ranks : Completed(r) = k

\* C2: from an all-zero pad, under fair scheduling of the lanes, every barrier
\* that all ranks have launched on the channel is eventually completed by all
\* ranks: with k barriers launched by every rank, every rank's k-th kernel
\* terminates (launch and completion counts only grow).
C2_BarrierLiveness == []<>(AllCompleted = AllLaunched)

\* Every rank of a group of at least two has launched and completed a barrier
C2_Witness ==
  /\ world_size >= 2
  /\ \A r \in Ranks : launched[r] >= 1 /\ Completed(r) >= 1

\* acquires rank r's lane t has completed on the slot of rank t in r's pad
Acquired(r, t) ==
  IF lane_pc[r][t] = "exit" THEN launched[r] ELSE launched[r] - 1

\* C23: barriers repeated on one channel. A slot of the channel holds 1 only
\* for a release that its acquire has not yet consumed, so once all ranks have
\* completed the same barrier (and none has started another) every slot of
\* the channel in every pad is 0 again, and the other words of the pads stay
\* 0; and no rank completes its k-th barrier before every rank has entered
\* its k-th barrier, whether or not a fast rank is already inside its
\* (k+1)-th while a slow rank is inside its k-th.
C23_BarrierReuse ==
  check_channel(channel, world_size) = "ok" =>
    /\ \A r, t \in Ranks :
         signal_pads[r][Slot(t)] = Released(t, r) - Acquired(r, t)
    /\ \A r \in Ranks : \A w \in PadWords \ {Slot(t) : t \in Ranks} :
         signal_pads[r][w] = 0
    /\ (\A r \in Ranks : KernelDone(r) /\ launched[r] = launched[0]) =>
         \A r \in Ranks : \A w \in PadWords : signal_pads[r][w] = 0
    /\ \A r, t \in Ranks : Completed(r) <= launched[t]

\* A fast rank has completed its first barrier and, inside its second, has
\* already released the slot directed at a slow rank that is still inside its
\* first barrier
C23_Witness ==
  /\ world_size >= 2
  /\ \E f, s \in Ranks :
       /\ f # s
       /\ launched[f] = 2
       /\ launched[s] = 1
       /\ ~KernelDone(s)
       /\ signal_pads[s][Slot(f)] = 1

----------------------------------------------------------------------------
(* Device side: put_signal, wait_signal *)

MaxMsgs == 2

\* put_signal_kernel: signal_pads[dst_rank] + world_size * channel + rank
PutAddr(rank, dst_rank) == [pad |-> dst_rank, w |-> Slot(rank)]

\* wait_signal_kernel: signal_pads[rank] + world_size * channel + src_rank
WaitAddr(rank, src_rank) == [pad |-> rank, w |-> Slot(src_rank)]

\* The sending stream on rank src runs, for i = 1 .. MaxMsgs: a kernel that
\* writes i into dst's buffer, then put_signal(dst, channel). The receiving
\* stream on rank dst runs: wait_signal(src, channel), then a kernel that reads
\* the buffer. A stream runs its kernels in order, each after the previous one
\* has completed.
InitSignal ==
  /\ world_size \in 1 .. MaxWorld
  /\ FnIdle
  /\ channel \in -1 .. MaxChannel
  /\ signal_pads = [r \in Ranks |-> [w \in PadWords |-> 0]]
  /\ lane_pc = <<>>
  /\ launched = <<>>
  /\ host_err = <<>>
  /\ sig \in [src : Ranks, dst : Ranks]
  /\ snd = [pc |-> "write", i |-> 1]
  /\ rcv = [pc |-> "wait_signal", i |-> 1, obs |-> <<>>]
  /\ buf = 0
  /\ HostIdle

\* The sender's kernel storing message i into the shared region
SenderWrite ==
  /\ snd.pc = "write"
  /\ buf' = snd.i
  /\ snd' = [snd EXCEPT !.pc = "put_signal"]
  /\ UNCHANGED <<world_size, hostVars, fnVars, channel, signal_pads, barVars, sig, rcv>>

\* CUDASymmetricMemory::put_signal(dst_rank, channel): check_channel, launch
put_signal ==
  /\ snd.pc = "put_signal"
  /\ snd' = [snd EXCEPT !.pc = IF check_channel(channel, world_size) = "ok"
                               THEN "release" ELSE "error"]
  /\ UNCHANGED <<world_size, hostVars, fnVars, channel, signal_pads, barVars, sig, rcv, buf>>

\* put_signal_kernel, thread 0: one iteration of release_signal
put_signal_kernel ==
  /\ snd.pc = "release"
  /\ LET a  == PutAddr(sig.src, sig.dst)
         st == release_signal(a.pad, a.w)
     IN  /\ signal_pads' = st.pads
         /\ snd' = IF ~st.done THEN snd
                   ELSE IF snd.i < MaxMsgs
                        THEN [pc |-> "write", i |-> snd.i + 1]
                        ELSE [pc |-> "end", i |-> snd.i + 1]
  /\ UNCHANGED <<world_size, hostVars, fnVars, channel, barVars, sig, rcv, buf>>

\* CUDASymmetricMemory::wait_signal(src_rank, channel): check_channel, launch
wait_signal ==
  /\ rcv.pc = "wait_signal"
  /\ rcv' = [rcv EXCEPT !.pc = IF check_channel(channel, world_size) = "ok"
                               THEN "acquire" ELSE "error"]
  /\ UNCHANGED <<world_size, hostVars, fnVars, channel, signal_pads, barVars, sig, snd, buf>>

\* wait_signal_kernel, thread 0: one iteration of acquire_signal; the kernel
\* ends with __threadfence_system()
wait_signal_kernel ==
  /\ rcv.pc = "acquire"
  /\ LET a  == WaitAddr(sig.dst, sig.src)
         st == acquire_signal(a.pad, a.w)
     IN  /\ signal_pads' = st.pads
         /\ rcv' = IF st.done THEN [rcv EXCEPT !.pc = "read"] ELSE rcv
  /\ UNCHANGED <<world_size, hostVars, fnVars, channel, barVars, sig, snd, buf>>

\* The receiver's kernel reading the shared region after wait_signal
ReceiverRead ==
  /\ rcv.pc = "read"
  /\ rcv' = [pc  |-> IF rcv.i < MaxMsgs THEN "wait_signal" ELSE "end",
             i   |-> rcv.i + 1,
             obs |-> Append(rcv.obs, buf)]
  /\ UNCHANGED <<world_size, hostVars, fnVars, channel, signal_pads, barVars, sig, snd, buf>>

NextSignal ==
  \/ SenderWrite
  \/ put_signal
  \/ put_signal_kernel
  \/ wait_signal
  \/ wait_signal_kernel
  \/ ReceiverRead

SpecSignal == InitSignal /\ [][NextSignal]_vars

\* put_signal kernels of the sender that have executed their 0 -> 1 transition
PutsDone == snd.i - 1

\* wait_signal kernels of the receiver that have completed
WaitsDone == IF rcv.pc = "read" THEN rcv.i ELSE rcv.i - 1

\* C3: the k-th wait_signal(src, ch) on rank dst completes only after the k-th
\* put_signal(dst, ch) of rank src has executed its 0 -> 1 transition, and what
\* the receiver reads after it includes every write the sender made before
\* that put_signal (the k-th read sees message k or a later one).
C3_PutWaitOrdering ==
  /\ WaitsDone <= PutsDone
  /\ rcv.pc = "read" => buf >= rcv.i
  /\ \A k \in 1 .. Len(rcv.obs) : rcv.obs[k] >= k

\* The receiver on another rank has waited for and read every message
C3_Witness ==
  /\ sig.src # sig.dst
  /\ rcv.pc = "end"
  /\ Len(rcv.obs) = MaxMsgs

\* C18: put_signal(d, ch) run by rank s and wait_signal(s, ch) run by rank d
\* address the same slot, word ch * world_size + s of rank d's pad, and that
\* word is the one the kernels change: it is posted exactly between the put and
\* the wait; distinct (receiver, channel, sender) triples address distinct
\* slots; barrier_kernel releases and acquires with the same indexing.
C18_SlotAddressing ==
  /\ \A s, d \in Ranks :
       /\ PutAddr(s, d) = [pad |-> d, w |-> channel * world_size + s]
       /\ WaitAddr(d, s) = PutAddr(s, d)
       /\ ReleaseAddr(s, d) = PutAddr(s, d)
       /\ AcquireAddr(d, s) = WaitAddr(d, s)
  /\ \A d1, d2, s1, s2 \in Ranks : \A c1, c2 \in 0 .. MaxChannel + 1 :
       <<d1, c1, s1>> # <<d2, c2, s2>> =>
         [pad |-> d1, w |-> SlotAt(c1, s1)] # [pad |-> d2, w |-> SlotAt(c2, s2)]
  /\ \A d \in Ranks : \A w \in PadWords :
       signal_pads[d][w] =
         IF d = sig.dst /\ w = channel * world_size + sig.src
         THEN PutsDone - WaitsDone ELSE 0

\* Between two ranks a put_signal has posted the slot and the wait_signal on
\* the other rank has not yet consumed it
C18_Witness ==
  /\ sig.src # sig.dst
  /\ PutsDone = 1
  /\ WaitsDone = 0
  /\ signal_pads[sig.dst][channel * world_size + sig.src] = 1

\* C22: for every world size and every channel check_channel accepts, every
\* slot barrier, put_signal and wait_signal touch lies inside the signal pad:
\* (world_size * channel + peer_rank) * 4 + 4 <= signal_pad_size for every
\* peer_rank < world_size.
C22_SlotsInsidePad ==
  chan_res = "ok" =>
    \A peer_rank \in Ranks :
      SlotAt(chan_arg, peer_rank) * SizeofUint32 + SizeofUint32 <= signal_pad_size

----------------------------------------------------------------------------
(* One signal slot under several callers: every caller runs release_signal  *)
(* or acquire_signal on word 0 of one pad, which starts at 0.                *)

MaxCallers == 4

Callers == 1 .. MaxCallers

InitSlot ==
  /\ world_size = 1
  /\ FnIdle
  /\ channel = 0
  /\ signal_pads = [r \in {0} |-> [w \in {0} |-> 0]]
  /\ lane_pc \in [Callers -> [op : {"release", "acquire"}, done : {FALSE}]]
  /\ launched = <<>>
  /\ host_err = <<>>
  /\ sig = <<>>
  /\ snd = <<>>
  /\ rcv = <<>>
  /\ buf = 0
  /\ HostIdle

\* Caller k inside release_signal(addr): one iteration of its loop
release_signal_caller(k) ==
  /\ lane_pc[k].op = "release"
  /\ ~lane_pc[k].done
  /\ LET st == release_signal(0, 0)
     IN  /\ signal_pads' = st.pads
         /\ lane_pc' = [lane_pc EXCEPT ![k].done = st.done]
  /\ UNCHANGED <<world_size, hostVars, fnVars, sigVars, channel, launched, host_err>>

\* Caller k inside acquire_signal(addr): one iteration of its loop
acquire_signal_caller(k) ==
  /\ lane_pc[k].op = "acquire"
  /\ ~lane_pc[k].done
  /\ LET st == acquire_signal(0, 0)
     IN  /\ signal_pads' = st.pads
         /\ lane_pc' = [lane_pc EXCEPT ![k].done = st.done]
  /\ UNCHANGED <<world_size, hostVars, fnVars, sigVars, channel, launched, host_err>>

NextSlot ==
  \/ \E k \in Callers : release_signal_caller(k)
  \/ \E k \in Callers : acquire_signal_caller(k)

SpecSlot == InitSlot /\ [][NextSlot]_vars

\* callers of the given primitive that have returned
CompletedCalls(op) ==
  Cardinality({k \in Callers : lane_pc[k].op = op /\ lane_pc[k].done})

\* C16: under any interleaving of release_signal and acquire_signal callers on
\* a slot that starts at 0, the slot is always 0 or 1 and equals completed
\* releases minus completed acquires (so a release on a posted slot does not
\* complete until an acquire has consumed it, and none is lost or consumed
\* twice); a release_signal returns only by a 0 -> 1 transition and an
\* acquire_signal only by a 1 -> 0 transition.
C16_SlotDiscipline ==
  /\ [](/\ signal_pads[0][0] \in {0, 1}
        /\ CompletedCalls("release") - CompletedCalls("acquire") =
             signal_pads[0][0])
  /\ [][\A k \in Callers :
          (~lane_pc[k].done /\ lane_pc'[k].done) =>
            IF lane_pc[k].op = "release"
            THEN signal_pads[0][0] = 0 /\ signal_pads'[0][0] = 1
            ELSE signal_pads[0][0] = 1 /\ signal_pads'[0][0] = 0]_vars

\* Two releases and one acquire have completed on the slot, which is posted
C16_Witness ==
  /\ CompletedCalls("release") = 2
  /\ CompletedCalls("acquire") = 1
  /\ signal_pads[0][0] = 1
  /\ \E k \in Callers : lane_pc[k].op = "release" /\ ~lane_pc[k].done

----------------------------------------------------------------------------
(* Host side: alloc, store_all_gather, store_barrier, rendezvous *)

MaxSeq == 3
MaxAllocs == 2

\* The payload sizes alloc() is called with
AllocSizes == {8, 16}

\* rounding down to a multiple of y
round_up_Down(x, y) == (x \div y) * y

\* at::round_up
round_up(x, y) == ((x + y - 1) \div y) * y

\* cuMemGetAllocationGranularity_(.., CU_MEM_ALLOC_GRANULARITY_RECOMMENDED):
\* the driver's answer
Granularity(device_idx) == 4096

Max(S) == CHOOSE x \in S : \A y \in S : y <= x

\* getpid() of the process of rank p
Pid(p) == p

\* The driver state of a process that has made no driver call: created counts
\* its cuMemCreate_ calls, reserved is the end of its reserved address ranges,
\* handles[h] counts its live handles of allocation h, err names the driver
\* call whose C10_CUDA_DRIVER_CHECK failed
NoDriverState == [created |-> 0, reserved |-> 0, handles |-> <<>>, err |-> "none"]

\* No alloc() call yet
NoAlloc == [size |-> 0, device_idx |-> 0, ret |-> 0]

HandleCount(hs, h) == IF h \in DOMAIN hs THEN hs[h] ELSE 0

\* cuMemCreate_ / cuMemImportFromShareableHandle_: one more live handle of h
AddHandle(hs, h) ==
  [x \in DOMAIN hs \cup {h} |-> IF x = h THEN HandleCount(hs, h) + 1 ELSE hs[x]]

\* map_block(&ptr, handle, size, device_idx) in process p: cuMemAddressReserve_
\* gives a fresh non-null range (here the lowest address above every range
\* reserved so far: the code never frees a reservation), cuMemMap_ maps the
\* allocation behind handle there.
map_block(p, handle, size, device_idx) ==
  LET ptr == Max({size, driver[p].reserved})
  IN  [ptr  |-> ptr,
       reserved |-> ptr + size,
       maps |-> (ptr :> [alloc |-> handle, size |-> size, device |-> device_idx])
                @@ vmap[p]]

\* The lowest descriptor number free in process p
NewFd(p) ==
  CHOOSE n \in 3 .. 3 + Cardinality(DOMAIN fds[p]) :
    /\ n \notin DOMAIN fds[p]
    /\ \A m \in 3 .. n - 1 : m \in DOMAIN fds[p]

\* import_remote_fd(pid, fd): pidfd_open + pidfd_getfd duplicate descriptor fd
\* of process pid; it fails when pid holds no such descriptor.
import_remote_fd(pid, fd) ==
  IF pid \in DOMAIN fds /\ fd \in DOMAIN fds[pid]
  THEN [ok |-> TRUE, alloc |-> fds[pid][fd]]
  ELSE [ok |-> FALSE, alloc |-> <<>>]

NoResult == [status |-> "none", symm_mem |-> 0]

\* A host thread outside rendezvous; its locals are dead
IdleCall ==
  [pc |-> "idle", ptr |-> 0, block_fd |-> 0, val |-> <<>>, peer_keys |-> <<>>,
   r |-> 0, vals |-> <<>>, reqs |-> <<>>, handles |-> <<>>, buffers |-> <<>>,
   signal_pads |-> <<>>, result |-> NoResult]

\* A call that ended: by an exception (status names it) or by returning symm_mem
Returned(c, status, symm_mem) ==
  [IdleCall EXCEPT !.ptr = c.ptr, !.reqs = c.reqs,
                   !.result = [status |-> status, symm_mem |-> symm_mem]]

Init ==
  /\ world_size \in 1 .. MaxWorld
  /\ FnIdle
  /\ DevIdle
  /\ ptr_to_block = [p \in Ranks |-> <<>>]
  /\ store_comm_seq_id = [p \in Ranks |-> 0]
  /\ store = <<>>
  /\ call = [p \in Ranks |-> IdleCall]
  /\ fds = [p \in Ranks |-> <<>>]
  /\ vmap = [p \in Ranks |-> <<>>]
  /\ symm_mems = [p \in Ranks |-> <<>>]
  /\ held = [p \in Ranks |-> {}]
  /\ driver = [p \in Ranks |-> NoDriverState]
  /\ last_alloc = [p \in Ranks |-> NoAlloc]
  /\ th = <<>>

\* The alloc() calls a process makes: a process of a group of several ranks
\* brings one block to the group, a process on its own allocates again after
\* a free
AllocCap == IF world_size = 1 THEN MaxAllocs ELSE 1

\* CUDASymmetricMemoryAllocator::alloc(size, device_idx, group_name); a process
\* has one block registered at a time
alloc(p, size, device_idx) ==
  /\ call[p].pc = "idle"
  /\ DOMAIN ptr_to_block[p] = {}
  /\ driver[p].created < AllocCap
  /\ LET signal_pad_offset == round_up(size, 16)
         block_size == round_up(signal_pad_offset + signal_pad_size,
                                Granularity(device_idx))
         handle == <<p, driver[p].created + 1>>
         m == map_block(p, handle, block_size, device_idx)
         block == [handle |-> handle, device_idx |-> device_idx,
                   block_size |-> block_size, buffer_size |-> size,
                   signal_pad_offset |-> signal_pad_offset, symm_mem |-> 0]
     IN  /\ vmap' = [vmap EXCEPT ![p] = m.maps]
         /\ driver' = [driver EXCEPT ![p] =
                         [@ EXCEPT !.created = @ + 1, !.reserved = m.reserved,
                                   !.handles = AddHandle(@, handle)]]
         /\ ptr_to_block' = [ptr_to_block EXCEPT ![p] = (m.ptr :> block) @@ @]
         /\ last_alloc' = [last_alloc EXCEPT ![p] =
                             [size |-> size, device_idx |-> device_idx,
                              ret |-> m.ptr]]
  /\ UNCHANGED <<world_size, fnVars, devVars, store_comm_seq_id, store, call,
                 fds, symm_mems, held, th>>

\* rendezvous without its early return
AlreadyRendezvoused_Never(block) == FALSE

\* block->symm_mem != nullptr: rendezvous returns the cached object
AlreadyRendezvoused(block) == block.symm_mem # 0

\* store_all_gather publishing under the key of rank 0 whatever the rank
store_all_gather_publish_WrongKey(p, payload) ==
  LET peer_keys == [i \in 1 .. world_size |-> <<store_comm_seq_id[p], i - 1>>]
  IN  [peer_keys |-> peer_keys,
       seq       |-> store_comm_seq_id[p] + 1,
       store     |-> (peer_keys[1] :> payload) @@ store]

\* store_all_gather, lines 30-43, in the process of rank p: the keys of the
\* round, ++store_comm_seq_id, store->set(peer_keys[rank], payload)
store_all_gather_publish(p, payload) ==
  LET peer_keys == [i \in 1 .. world_size |-> <<store_comm_seq_id[p], i - 1>>]
  IN  [peer_keys |-> peer_keys,
       seq       |-> store_comm_seq_id[p] + 1,
       store     |-> (peer_keys[p + 1] :> payload) @@ store]

\* CUDASymmetricMemoryAllocator::rendezvous(ptr), lines 443-470 and the
\* publishing half of store_all_gather: unknown pointer, cached object, or
\* export the handle and publish the local request.
rendezvous(p, ptr) ==
  /\ call[p].pc = "idle"
  /\ IF ptr \notin DOMAIN ptr_to_block[p]
     THEN /\ call' = [call EXCEPT ![p] =
                        Returned([IdleCall EXCEPT !.ptr = ptr], "unknown_ptr", 0)]
          /\ UNCHANGED <<store_comm_seq_id, store, fds, held>>
     ELSE LET block == ptr_to_block[p][ptr] IN
          IF AlreadyRendezvoused(block)
          THEN /\ call' = [call EXCEPT ![p] =
                             Returned([IdleCall EXCEPT !.ptr = ptr], "ok",
                                      block.symm_mem)]
               /\ held' = [held EXCEPT ![p] = @ \cup {block.symm_mem}]
               /\ UNCHANGED <<store_comm_seq_id, store, fds>>
          ELSE LET block_fd == NewFd(p)
                   local_req == Request(block.device_idx, block_fd, Pid(p),
                                        block.block_size, block.buffer_size,
                                        block.signal_pad_offset)
                   payload == [size |-> "RendezvousRequest", val |-> local_req]
                   g == store_all_gather_publish(p, payload)
               IN  /\ store_comm_seq_id[p] < MaxSeq
                   /\ fds' = [fds EXCEPT ![p] = (block_fd :> block.handle) @@ @]
                   /\ store_comm_seq_id' = [store_comm_seq_id EXCEPT ![p] = g.seq]
                   /\ store' = g.store
                   /\ call' = [call EXCEPT ![p] =
                                 [IdleCall EXCEPT !.pc = "gather", !.ptr = ptr,
                                                  !.block_fd = block_fd,
                                                  !.val = payload,
                                                  !.peer_keys = g.peer_keys]]
                   /\ UNCHANGED held
  /\ UNCHANGED <<world_size, fnVars, devVars, ptr_to_block, vmap, symm_mems,
                 driver, last_alloc, th>>

\* store->wait({key}) returns once the key is in the store
store_wait(key) == key \in DOMAIN store

\* store_all_gather, lines 45-58, one iteration of the loop over r: the own
\* value is taken as is; a peer's is waited for, read and size-checked. The
\* iteration that ends the loop returns to rendezvous: after the request
\* gather to validate_rendezvous_requests, after store_barrier to line 493.
store_all_gather_step(p) ==
  /\ call[p].pc \in {"gather", "barrier_wait"}
  /\ LET c   == call[p]
         key == c.peer_keys[c.r + 1]
         own == c.r = p
     IN  /\ own \/ store_wait(key)
         /\ LET payload == IF own THEN c.val ELSE store[key]
                vals == Append(c.vals, payload.val)
                last == c.r + 1 = world_size
            IN  call' = [call EXCEPT ![p] =
                  IF payload.size # c.val.size
                  THEN Returned(c, "payload_size", 0)
                  ELSE IF ~last
                  THEN [c EXCEPT !.r = c.r + 1, !.vals = vals]
                  ELSE IF c.pc = "gather"
                  THEN [c EXCEPT !.pc = "validate", !.r = 0, !.vals = <<>>,
                                 !.reqs = vals]
                  ELSE [c EXCEPT !.pc = "finish", !.r = 0, !.vals = <<>>]]
  /\ UNCHANGED <<world_size, fnVars, devVars, ptr_to_block, store_comm_seq_id,
                 store, fds, vmap, symm_mems, held, driver, last_alloc, th>>

\* rendezvous, lines 471-475: validate the gathered requests (a failed
\* TORCH_CHECK throws), then create the per-rank vectors
rendezvous_validate(p) ==
  /\ call[p].pc = "validate"
  /\ LET c == call[p]
     IN  call' = [call EXCEPT ![p] =
           IF validate_rendezvous_requests(c.reqs, world_size)
           THEN [c EXCEPT !.pc = "import", !.r = 0,
                          !.handles = [i \in 1 .. world_size |-> <<>>],
                          !.buffers = [i \in 1 .. world_size |-> 0],
                          !.signal_pads = [i \in 1 .. world_size |-> 0]]
           ELSE Returned(c, "validation_error", 0)]
  /\ UNCHANGED <<world_size, fnVars, devVars, ptr_to_block, store_comm_seq_id,
                 store, fds, vmap, symm_mems, held, driver, last_alloc, th>>

\* the signal pad pointer taken to be the buffer pointer
SignalPadPtr_NoOffset(buffer, signal_pad_offset) == buffer

\* signal_pads[r] = (void*)((uintptr_t)buffers[r] + block->signal_pad_offset)
SignalPadPtr(buffer, signal_pad_offset) == buffer + signal_pad_offset

\* rendezvous without its store_barrier
AfterImport_NoBarrier == "finish"

\* The step rendezvous takes once every remote block is mapped: store_barrier
AfterImport == "barrier"

\* rendezvous, lines 476-491, one iteration of the loop over r: the local
\* rank's slot reuses ptr and the block's handle; a remote rank's descriptor is
\* imported, turned into a handle, mapped, and the imported descriptor closed.
rendezvous_import(p) ==
  /\ call[p].pc = "import"
  /\ LET c     == call[p]
         i     == c.r + 1
         block == ptr_to_block[p][c.ptr]
         imp   == import_remote_fd(c.reqs[i].pid, c.reqs[i].block_fd)
         m     == map_block(p, imp.alloc, block.block_size, block.device_idx)
         next  == IF c.r + 1 = world_size THEN AfterImport ELSE "import"
     IN  IF c.r = p
         THEN /\ call' = [call EXCEPT ![p] =
                   [c EXCEPT !.pc = next, !.r = c.r + 1,
                             !.handles[i] = block.handle,
                             !.buffers[i] = c.ptr,
                             !.signal_pads[i] =
                                SignalPadPtr(c.ptr, block.signal_pad_offset)]]
              /\ UNCHANGED <<vmap, driver>>
         ELSE IF ~imp.ok
         THEN /\ call' = [call EXCEPT ![p] = Returned(c, "driver_error", 0)]
              /\ UNCHANGED <<vmap, driver>>
         ELSE /\ vmap' = [vmap EXCEPT ![p] = m.maps]
              /\ driver' = [driver EXCEPT ![p] =
                              [@ EXCEPT !.reserved = m.reserved,
                                        !.handles = AddHandle(@, imp.alloc)]]
              /\ call' = [call EXCEPT ![p] =
                   [c EXCEPT !.pc = next, !.r = c.r + 1,
                             !.handles[i] = imp.alloc,
                             !.buffers[i] = m.ptr,
                             !.signal_pads[i] =
                                SignalPadPtr(m.ptr, block.signal_pad_offset)]]
  /\ UNCHANGED <<world_size, fnVars, devVars, ptr_to_block, store_comm_seq_id,
                 store, fds, symm_mems, held, last_alloc, th>>

\* store_barrier, line 492: store_all_gather of the int 0, publishing half
store_barrier(p) ==
  /\ call[p].pc = "barrier"
  /\ LET payload == [size |-> "int", val |-> 0]
         g == store_all_gather_publish(p, payload)
     IN  /\ store_comm_seq_id' = [store_comm_seq_id EXCEPT ![p] = g.seq]
         /\ store' = g.store
         /\ call' = [call EXCEPT ![p] =
                       [@ EXCEPT !.pc = "barrier_wait", !.r = 0, !.vals = <<>>,
                                 !.val = payload, !.peer_keys = g.peer_keys]]
  /\ UNCHANGED <<world_size, fnVars, devVars, ptr_to_block, fds, vmap,
                 symm_mems, held, driver, last_alloc, th>>

\* rendezvous, lines 493-508: close(block_fd), construct the
\* CUDASymmetricMemory, attach it to the block and return it. The object is
\* named by the pointer of the block it is built from; the block and the
\* caller each hold a reference to it.
rendezvous_finish(p) ==
  /\ call[p].pc = "finish"
  /\ LET c     == call[p]
         block == ptr_to_block[p][c.ptr]
         id    == c.ptr
         obj   == [handles |-> c.handles, block_size |-> block.block_size,
                   buffers |-> c.buffers, signal_pads |-> c.signal_pads,
                   buffer_size |-> block.buffer_size,
                   local_device_idx |-> block.device_idx,
                   rank |-> p, world_size |-> world_size]
     IN  /\ fds' = [fds EXCEPT ![p] =
                      [fd \in DOMAIN @ \ {c.block_fd} |-> @[fd]]]
         /\ symm_mems' = [symm_mems EXCEPT ![p] = (id :> obj) @@ @]
         /\ ptr_to_block' = [ptr_to_block EXCEPT ![p][c.ptr].symm_mem = id]
         /\ call' = [call EXCEPT ![p] = Returned(c, "ok", id)]
         /\ held' = [held EXCEPT ![p] = @ \cup {id}]
  /\ UNCHANGED <<world_size, fnVars, devVars, store_comm_seq_id, store, vmap,
                 driver, last_alloc, th>>

Next ==
  \/ \E p \in Ranks, size \in AllocSizes, device_idx \in Ranks :
       alloc(p, size, device_idx)
  \/ \E p \in Ranks : \E ptr \in DOMAIN ptr_to_block[p] \cup {0} :
       rendezvous(p, ptr)
  \/ \E p \in Ranks : store_all_gather_step(p)
  \/ \E p \in Ranks : rendezvous_validate(p)
  \/ \E p \in Ranks : rendezvous_import(p)
  \/ \E p \in Ranks : store_barrier(p)
  \/ \E p \in Ranks : rendezvous_finish(p)

Spec == Init /\ [][Next]_vars

\* The requests do not describe one symmetric allocation on distinct devices
Inconsistent(reqs) ==
  \E i, j \in 1 .. Len(reqs) :
    \/ i # j /\ reqs[i].device_idx = reqs[j].device_idx
    \/ reqs[i].block_size # reqs[j].block_size
    \/ reqs[i].buffer_size # reqs[j].buffer_size
    \/ reqs[i].signal_pad_offset # reqs[j].signal_pad_offset

\* The block process p has registered (each process registers one)
BlockOf(p) == ptr_to_block[p][CHOOSE ptr \in DOMAIN ptr_to_block[p] : TRUE]

\* C5: once rendezvous(ptr) has succeeded, a later rendezvous(ptr) on the still
\* registered block returns the identical object, constructs no object and
\* performs no store round (sequence counter, store and descriptors unchanged).
C5_RendezvousIdempotent ==
  [][\A p \in Ranks :
       (/\ call[p].pc = "idle"
        /\ call'[p] # call[p]
        /\ call'[p].ptr \in DOMAIN ptr_to_block[p]
        /\ ptr_to_block[p][call'[p].ptr].symm_mem # 0)
       => /\ call'[p].pc = "idle"
          /\ call'[p].result =
               [status |-> "ok",
                symm_mem |-> ptr_to_block[p][call'[p].ptr].symm_mem]
          /\ symm_mems' = symm_mems
          /\ ptr_to_block' = ptr_to_block
          /\ store_comm_seq_id' = store_comm_seq_id
          /\ store' = store
          /\ fds' = fds]_vars

\* A rendezvous on an already rendezvoused block has returned the cached object
C5_Witness ==
  \E p \in Ranks :
    /\ call[p].pc = "idle"
    /\ call[p].reqs = <<>>
    /\ call[p].result.status = "ok"
    /\ call[p].ptr \in DOMAIN ptr_to_block[p]
    /\ ptr_to_block[p][call[p].ptr].symm_mem = call[p].result.symm_mem
    /\ call[p].result.symm_mem \in DOMAIN symm_mems[p]

\* C7: when the gathered requests are inconsistent, every rank that gathered
\* them fails validation, before it has created its handle vectors or imported
\* or mapped any remote handle; its block stays registered with no
\* SymmetricMemory attached.
C7_InconsistentFailsBeforeImport ==
  \A p \in Ranks :
    LET c == call[p] IN
    (Len(c.reqs) = world_size /\ Inconsistent(c.reqs)) =>
      /\ c.pc \in {"validate", "idle"}
      /\ c.pc = "idle" => c.result = [status |-> "validation_error", symm_mem |-> 0]
      /\ c.handles = <<>> /\ c.buffers = <<>>
      /\ \A a \in DOMAIN vmap[p] : vmap[p][a].alloc[1] = p
      /\ c.ptr \in DOMAIN ptr_to_block[p]
      /\ ptr_to_block[p][c.ptr].symm_mem = 0
      /\ symm_mems[p] = <<>>
      /\ \A q \in Ranks :
           Len(call[q].reqs) = world_size => Inconsistent(call[q].reqs)

\* Every rank of a group has failed on requests with mismatched buffer sizes
C7_Witness ==
  /\ world_size >= 2
  /\ \A p \in Ranks :
       /\ call[p].pc = "idle"
       /\ call[p].result.status = "validation_error"
       /\ call[p].reqs[1].buffer_size # call[p].reqs[2].buffer_size

\* C8: a SymmetricMemory returned by rendezvous reports the payload size passed
\* to alloc (the same on every rank), the world size and the caller's rank; its
\* buffers are world_size distinct non-null pointers, entry r a mapping in this
\* process of the block rank r allocated, the local entry the original pointer;
\* signal_pads[r] = buffers[r] + signal_pad_offset.
C8_SymmetricMemoryShape ==
  \A p \in Ranks : \A id \in DOMAIN symm_mems[p] :
    LET o == symm_mems[p][id] IN
    /\ o.world_size = world_size
    /\ o.rank = p
    /\ o.buffer_size = BlockOf(p).buffer_size
    /\ \A q \in Ranks : \A jd \in DOMAIN symm_mems[q] :
         symm_mems[q][jd].buffer_size = o.buffer_size
    /\ Len(o.buffers) = world_size /\ Len(o.signal_pads) = world_size
    /\ \A i, j \in 1 .. world_size : i # j => o.buffers[i] # o.buffers[j]
    /\ o.buffers[p + 1] \in DOMAIN ptr_to_block[p]
    /\ ptr_to_block[p][o.buffers[p + 1]].symm_mem = id
    /\ \A r \in Ranks :
         /\ o.buffers[r + 1] # 0
         /\ o.buffers[r + 1] \in DOMAIN vmap[p]
         /\ vmap[p][o.buffers[r + 1]].alloc = BlockOf(r).handle
         /\ o.handles[r + 1] = BlockOf(r).handle
         /\ o.signal_pads[r + 1] =
              o.buffers[r + 1] + round_up(o.buffer_size, 16)

\* Every rank of a group of at least two holds its SymmetricMemory
C8_Witness ==
  /\ world_size >= 2
  /\ \A p \in Ranks : symm_mems[p] # <<>>

\* Process q has a mapping of a block of every rank
AllMapped(q) ==
  \A r \in Ranks : \E a \in DOMAIN vmap[q] : vmap[q][a].alloc[1] = r

\* C9: a rank passes the store barrier, and so returns from rendezvous, only
\* after every rank of the group has finished its import and mapping loop.
C9_NoReturnBeforeAllMapped ==
  \A p \in Ranks :
    (call[p].pc = "finish" \/ symm_mems[p] # <<>>) =>
      \A q \in Ranks :
        /\ AllMapped(q)
        /\ call[q].pc \in {"barrier_wait", "finish", "idle"}

\* A rank has returned its SymmetricMemory while a peer is still inside its call
C9_Witness ==
  /\ world_size >= 2
  /\ \E p, q \in Ranks :
       /\ symm_mems[p] # <<>>
       /\ call[q].pc = "barrier_wait"

\* Every rank is gathering the requests of one and the same round, on blocks
\* that agree in their sizes and lie on distinct devices
AllGathering ==
  /\ \A p \in Ranks :
       /\ call[p].pc = "gather"
       /\ call[p].peer_keys = call[0].peer_keys
       /\ DOMAIN ptr_to_block[p] # {}
  /\ \A p, q \in Ranks :
       /\ BlockOf(p).block_size = BlockOf(q).block_size
       /\ BlockOf(p).buffer_size = BlockOf(q).buffer_size
       /\ BlockOf(p).signal_pad_offset = BlockOf(q).signal_pad_offset
       /\ p # q => BlockOf(p).device_idx # BlockOf(q).device_idx

\* Rank p's rendezvous has returned the SymmetricMemory it constructed
ReturnedObject(p) ==
  /\ call[p].pc = "idle"
  /\ call[p].result.status = "ok"
  /\ Len(call[p].reqs) = world_size
  /\ call[p].result.symm_mem \in DOMAIN symm_mems[p]

\* Rank p's call has got past the gathering of the requests
PastGather(p) ==
  \/ call[p].pc \in {"validate", "import", "barrier", "barrier_wait", "finish"}
  \/ call[p].pc = "idle" /\ call[p].reqs # <<>>

\* C20: a rank closes the descriptor it exported only after every peer has
\* imported it: at the step that closes rank r's descriptor every peer holds a
\* handle imported from it, a peer about to import finds the descriptor open,
\* and no import fails.
C20_CloseAfterImports ==
  /\ [](\A q \in Ranks :
          /\ call[q].result.status # "driver_error"
          /\ (call[q].pc = "import" /\ call[q].r # q) =>
               LET req == call[q].reqs[call[q].r + 1] IN
               /\ req.block_fd \in DOMAIN fds[req.pid]
               /\ fds[req.pid][req.block_fd] = BlockOf(req.pid).handle)
  /\ [][\A r \in Ranks : \A fd \in DOMAIN fds[r] :
          fd \notin DOMAIN fds'[r] =>
            \A q \in Ranks \ {r} :
              /\ HandleCount(driver[q].handles, fds[r][fd]) >= 1
              /\ call[q].pc \in {"barrier_wait", "finish", "idle"}]_vars

\* A rank has closed its descriptor while a peer, having imported it, is still
\* inside its call
C20_Witness ==
  /\ world_size >= 2
  /\ \E r, q \in Ranks :
       /\ r # q
       /\ ReturnedObject(r)
       /\ DOMAIN fds[r] = {}
       /\ HandleCount(driver[q].handles, BlockOf(r).handle) = 1
       /\ call[q].pc \in {"barrier_wait", "finish"}

----------------------------------------------------------------------------
(* Block and SymmetricMemory lifetime: free, get_alloc_size, find_block, the *)
(* release of a caller's reference and ~CUDASymmetricMemory. The process is  *)
(* not finalizing (is_finalizing() is false).                                *)

\* find_block(ptr): the registry entry, or nullptr (found = FALSE)
find_block(p, ptr) ==
  IF ptr \in DOMAIN ptr_to_block[p]
  THEN [found |-> TRUE, block |-> ptr_to_block[p][ptr]]
  ELSE [found |-> FALSE, block |-> <<>>]

\* get_alloc_size(ptr): block->buffer_size, or the TORCH_CHECK failure
get_alloc_size(p, ptr) ==
  LET b == find_block(p, ptr)
  IN  IF b.found THEN [status |-> "ok", size |-> b.block.buffer_size]
      ELSE [status |-> "unknown_ptr", size |-> 0]

\* What the unmapping calls of process p work on
DriverView(p) ==
  [maps |-> vmap[p], handles |-> driver[p].handles, err |-> driver[p].err]

\* C10_CUDA_DRIVER_CHECK(cuMemUnmap_(ptr, size)): the call fails on a range
\* that is not mapped; a failed check throws and nothing after it runs
cuMemUnmap(d, ptr) ==
  IF d.err # "none" THEN d
  ELSE IF ptr \in DOMAIN d.maps
  THEN [d EXCEPT !.maps = [a \in DOMAIN d.maps \ {ptr} |-> d.maps[a]]]
  ELSE [d EXCEPT !.err = "cuMemUnmap"]

\* C10_CUDA_DRIVER_CHECK(cuMemRelease_(handle)): fails on a handle that is not
\* live
cuMemRelease(d, h) ==
  IF d.err # "none" THEN d
  ELSE IF HandleCount(d.handles, h) > 0
  THEN [d EXCEPT !.handles =
          [x \in {y \in DOMAIN d.handles : y # h \/ d.handles[y] > 1} |->
             IF x = h THEN d.handles[x] - 1 ELSE d.handles[x]]]
  ELSE [d EXCEPT !.err = "cuMemRelease"]

\* a destructor that leaves the local rank's original block mapped
RECURSIVE CUDASymmetricMemory_dtor_SkipLocal(_, _, _)
CUDASymmetricMemory_dtor_SkipLocal(d, obj, r) ==
  IF r >= obj.world_size THEN d
  ELSE CUDASymmetricMemory_dtor_SkipLocal(
         IF r = obj.rank THEN d
         ELSE cuMemRelease(cuMemUnmap(d, obj.buffers[r + 1]), obj.handles[r + 1]),
         obj, r + 1)

\* ~CUDASymmetricMemory, lines 149-153, from iteration r of its loop on
RECURSIVE CUDASymmetricMemory_dtor(_, _, _)
CUDASymmetricMemory_dtor(d, obj, r) ==
  IF r >= obj.world_size THEN d
  ELSE CUDASymmetricMemory_dtor(
         cuMemRelease(cuMemUnmap(d, obj.buffers[r + 1]), obj.handles[r + 1]),
         obj, r + 1)

\* Object id is referenced by a block of the registry or by the given holders
Referenced(registry, holders, id) ==
  \/ \E ptr \in DOMAIN registry : registry[ptr].symm_mem = id
  \/ id \in holders

\* c10::intrusive_ptr<SymmetricMemory>: after a reference to object id has
\* been dropped, the object is destroyed if no reference is left
DropReference(p, d, registry, holders, id) ==
  IF id \in DOMAIN symm_mems[p] /\ ~Referenced(registry, holders, id)
  THEN [d    |-> CUDASymmetricMemory_dtor(d, symm_mems[p][id], 0),
        objs |-> [x \in DOMAIN symm_mems[p] \ {id} |-> symm_mems[p][x]]]
  ELSE [d |-> d, objs |-> symm_mems[p]]

\* free() unmapping and releasing whatever the block's state
OwnsMapping_Always(block) == TRUE

\* free() never unmapping or releasing
OwnsMapping_Never(block) == FALSE

\* block->symm_mem == nullptr: the block still owns its mapping and handle
OwnsMapping(block) == block.symm_mem = 0

\* free() leaving the registry entry in place
Erase_Keep(registry, ptr) == registry

\* ptr_to_block_.erase(ptr)
Erase(registry, ptr) == [a \in DOMAIN registry \ {ptr} |-> registry[a]]

\* CUDASymmetricMemoryAllocator::free(ptr)
free(p, ptr) ==
  /\ call[p].pc = "idle"
  /\ driver[p].err = "none"
  /\ LET b == find_block(p, ptr) IN
     IF ~b.found
     THEN UNCHANGED <<ptr_to_block, vmap, driver, symm_mems>>
     ELSE LET d1 == IF OwnsMapping(b.block)
                    THEN cuMemRelease(cuMemUnmap(DriverView(p), ptr),
                                      b.block.handle)
                    ELSE DriverView(p)
              registry == IF d1.err = "none" THEN Erase(ptr_to_block[p], ptr)
                          ELSE ptr_to_block[p]
              x == DropReference(p, d1, registry, held[p], b.block.symm_mem)
          IN  /\ ptr_to_block' = [ptr_to_block EXCEPT ![p] = registry]
              /\ vmap' = [vmap EXCEPT ![p] = x.d.maps]
              /\ driver' = [driver EXCEPT ![p] =
                              [@ EXCEPT !.handles = x.d.handles, !.err = x.d.err]]
              /\ symm_mems' = [symm_mems EXCEPT ![p] = x.objs]
  /\ UNCHANGED <<world_size, fnVars, devVars, store_comm_seq_id, store, call,
                 fds, held, last_alloc, th>>

\* The caller in process p drops its reference to object id
release_reference(p, id) ==
  /\ call[p].pc = "idle"
  /\ driver[p].err = "none"
  /\ id \in held[p]
  /\ LET holders == held[p] \ {id}
         x == DropReference(p, DriverView(p), ptr_to_block[p], holders, id)
     IN  /\ held' = [held EXCEPT ![p] = holders]
         /\ vmap' = [vmap EXCEPT ![p] = x.d.maps]
         /\ driver' = [driver EXCEPT ![p] =
                         [@ EXCEPT !.handles = x.d.handles, !.err = x.d.err]]
         /\ symm_mems' = [symm_mems EXCEPT ![p] = x.objs]
  /\ UNCHANGED <<world_size, fnVars, devVars, store_comm_seq_id, store, call,
                 fds, ptr_to_block, last_alloc, th>>

\* A host thread inside rendezvous runs on: every step of its call is taken
\* once it stays possible (the call is synchronous and the store reliable)
RendezvousStep(p) ==
  \/ store_all_gather_step(p)
  \/ rendezvous_validate(p)
  \/ rendezvous_import(p)
  \/ store_barrier(p)
  \/ rendezvous_finish(p)

\* Every rank allocates on the device of its own index
NextLife ==
  \/ \E p \in Ranks, size \in AllocSizes : alloc(p, size, p)
  \/ \E p \in Ranks : \E ptr \in DOMAIN ptr_to_block[p] \cup {0} :
       rendezvous(p, ptr)
  \/ \E p \in Ranks : store_all_gather_step(p)
  \/ \E p \in Ranks : rendezvous_validate(p)
  \/ \E p \in Ranks : rendezvous_import(p)
  \/ \E p \in Ranks : store_barrier(p)
  \/ \E p \in Ranks : rendezvous_finish(p)
  \/ \E p \in Ranks : \E ptr \in DOMAIN ptr_to_block[p] \cup {last_alloc[p].ret} :
       free(p, ptr)
  \/ \E p \in Ranks : \E id \in held[p] : release_reference(p, id)

SpecLife == Init /\ [][NextLife]_vars

FairLife ==
  /\ SpecLife
  /\ \A p \in 0 .. MaxWorld - 1 : WF_vars(p \in Ranks /\ RendezvousStep(p))

\* C19: once every rank of a group has called rendezvous in the same store
\* round on consistently sized blocks, every rank's rendezvous eventually
\* returns a SymmetricMemory; and no rank's rendezvous gets past the gathering
\* of the requests (so none returns) unless every rank has published its
\* request: until then it stays in the store wait.
C19_RendezvousLiveness ==
  /\ \A p \in 0 .. MaxWorld - 1 :
       (p \in Ranks /\ AllGathering) ~> (p \in Ranks /\ ReturnedObject(p))
  /\ [](\A p \in Ranks : PastGather(p) =>
          \A q \in Ranks :
            \E key \in DOMAIN store :
              /\ key[2] = q
              /\ store[key].size = "RendezvousRequest"
              /\ store[key].val = call[p].reqs[q + 1])

\* Every rank of a group of several has returned from the rendezvous round
C19_Witness ==
  /\ world_size >= 2
  /\ \A p \in Ranks : ReturnedObject(p)

\* A process that is also a member of another group runs a rendezvous on a
\* block of that group. Both store rounds of that call (the request gather of
\* line 470 and store_barrier, line 492) go to the other group's store and
\* the call returns; what it leaves behind for this group is the process's
\* static counter, which store_all_gather has incremented once per round
\* (line 36).
rendezvous_other_group(p) ==
  /\ call[p].pc = "idle"
  /\ store_comm_seq_id[p] < MaxSeq
  /\ store_comm_seq_id' = [store_comm_seq_id EXCEPT ![p] = @ + 2]
  /\ UNCHANGED <<world_size, fnVars, devVars, ptr_to_block, store, call, fds,
                 vmap, symm_mems, held, driver, last_alloc, th>>

\* The group of all ranks, some of whose processes also rendezvous in other
\* groups
NextGroups ==
  \/ \E p \in Ranks, size \in AllocSizes : alloc(p, size, p)
  \/ \E p \in Ranks : \E ptr \in DOMAIN ptr_to_block[p] : rendezvous(p, ptr)
  \/ \E p \in Ranks : store_all_gather_step(p)
  \/ \E p \in Ranks : rendezvous_validate(p)
  \/ \E p \in Ranks : rendezvous_import(p)
  \/ \E p \in Ranks : store_barrier(p)
  \/ \E p \in Ranks : rendezvous_finish(p)
  \/ \E p \in Ranks : rendezvous_other_group(p)

SpecGroups == Init /\ [][NextGroups]_vars

\* C24: whatever store rounds its process has performed in other groups or in
\* earlier calls that failed validation, a rank inside a rendezvous of the
\* group uses the keys its peers use for that rendezvous: every key it reads
\* is in the store or is still to be published by its peer (the peer's
\* counter has not passed the key's sequence number), so the call never waits
\* on a key that no peer will ever publish.
C24_KeysAligned ==
  \A p \in Ranks :
    call[p].pc \in {"gather", "barrier_wait"} =>
      \A i \in 1 .. world_size :
        LET key == call[p].peer_keys[i] IN
        \/ key \in DOMAIN store
        \/ store_comm_seq_id[key[2]] <= key[1]

\* The payload sizes drawn for the block layout: around the 16-byte alignment
\* of the signal pad and around the allocation granularity
LayoutSizes == {1, 8, 15, 16, 17, 100, 2047, 2048, 2049, 4096, 6000, 8192}

\* One process on its own: alloc with the layout sizes, rendezvous in a group
\* of one, free and the release of the caller's reference
InitAlloc == Init /\ world_size = 1

NextAlloc ==
  \/ \E p \in Ranks, size \in LayoutSizes : alloc(p, size, p)
  \/ \E p \in Ranks : \E ptr \in DOMAIN ptr_to_block[p] : rendezvous(p, ptr)
  \/ \E p \in Ranks : store_all_gather_step(p)
  \/ \E p \in Ranks : rendezvous_validate(p)
  \/ \E p \in Ranks : rendezvous_import(p)
  \/ \E p \in Ranks : store_barrier(p)
  \/ \E p \in Ranks : rendezvous_finish(p)
  \/ \E p \in Ranks : \E ptr \in DOMAIN ptr_to_block[p] : free(p, ptr)
  \/ \E p \in Ranks : \E id \in held[p] : release_reference(p, id)

SpecAlloc == InitAlloc /\ [][NextAlloc]_vars

Freed(p, ptr) ==
  /\ ptr \in DOMAIN ptr_to_block[p]
  /\ ptr \notin DOMAIN ptr_to_block'[p]

\* Every mapping of object o of process p is mapped, on a live handle
Usable(p, o) ==
  \A r \in 1 .. o.world_size :
    /\ o.buffers[r] \in DOMAIN vmap[p]
    /\ vmap[p][o.buffers[r]].alloc = o.handles[r]
    /\ HandleCount(driver[p].handles, o.handles[r]) >= 1

\* C11: free(ptr) after a successful rendezvous removes the registry entry and
\* unmaps and releases nothing while the caller still holds the
\* SymmetricMemory: as long as a reference is held, the object is alive and
\* every rank's mapping in it, the local original block included, is mapped on
\* a live handle.
C11_FreeAfterRendezvousKeepsMappings ==
  /\ [](\A p \in Ranks : \A id \in held[p] :
          /\ id \in DOMAIN symm_mems[p]
          /\ Usable(p, symm_mems[p][id]))
  /\ [][\A p \in Ranks : \A ptr \in DOMAIN ptr_to_block[p] :
          (/\ Freed(p, ptr)
           /\ ptr_to_block[p][ptr].symm_mem # 0
           /\ ptr_to_block[p][ptr].symm_mem \in held[p])
          => /\ vmap'[p] = vmap[p]
             /\ driver'[p] = driver[p]
             /\ symm_mems'[p] = symm_mems[p]]_vars

\* In a group of several ranks a process has freed its rendezvoused block and
\* still holds the object, and a peer has already destroyed its own
C11_Witness ==
  /\ world_size >= 2
  /\ \E p, q \in Ranks :
       /\ p # q
       /\ DOMAIN ptr_to_block[p] = {}
       /\ held[p] # {}
       /\ call[q].result.status = "ok"
       /\ DOMAIN symm_mems[q] = {}

\* C12: free(ptr) on a block that owns its mapping (no rendezvous has
\* succeeded on it) unmaps the block, releases its handle and removes the
\* registry entry, so that get_alloc_size(ptr) then fails as unknown pointer;
\* while the block is registered get_alloc_size(ptr) returns the size passed
\* to alloc.
C12_FreeBeforeRendezvousReleases ==
  /\ [](\A p \in Ranks :
          last_alloc[p].ret \in DOMAIN ptr_to_block[p] =>
            get_alloc_size(p, last_alloc[p].ret) =
              [status |-> "ok", size |-> last_alloc[p].size])
  /\ [][\A p \in Ranks : \A ptr \in DOMAIN ptr_to_block[p] :
          (Freed(p, ptr) /\ ptr_to_block[p][ptr].symm_mem = 0)
          => /\ ptr \in DOMAIN vmap[p]
             /\ ptr \notin DOMAIN vmap'[p]
             /\ HandleCount(driver[p].handles, ptr_to_block[p][ptr].handle) = 1
             /\ HandleCount(driver'[p].handles, ptr_to_block[p][ptr].handle) = 0
             /\ driver'[p].err = "none"
             /\ get_alloc_size(p, ptr)'.status = "unknown_ptr"]_vars

\* A process has freed a block it never called rendezvous on: nothing is
\* mapped, no handle is live and the pointer is unknown
C12_Witness ==
  \E p \in Ranks :
    /\ last_alloc[p].ret # 0
    /\ call[p] = IdleCall
    /\ DOMAIN ptr_to_block[p] = {}
    /\ DOMAIN vmap[p] = {}
    /\ DOMAIN driver[p].handles = {}
    /\ get_alloc_size(p, last_alloc[p].ret).status = "unknown_ptr"

\* the addresses at which process p has a block of its own mapped
OwnMapped(p) == {a \in DOMAIN vmap[p] : vmap[p][a].alloc[1] = p}

\* C15 as stated: a Block for pointer ptr is in the registry exactly while the
\* virtual mapping at ptr is live.
C15_RegistryIffMapped ==
  \A p \in Ranks : DOMAIN ptr_to_block[p] = OwnMapped(p)

\* C15 as amended: a registered block is mapped; a mapped block is registered,
\* or it was freed after its rendezvous and is owned by the SymmetricMemory
\* built from it, to which the caller still holds a reference.
C15_RegistryOrObjectOwnsMapping ==
  \A p \in Ranks :
    /\ DOMAIN ptr_to_block[p] \subseteq OwnMapped(p)
    /\ \A a \in OwnMapped(p) \ DOMAIN ptr_to_block[p] :
         /\ a \in held[p]
         /\ a \in DOMAIN symm_mems[p]
         /\ symm_mems[p][a].buffers[symm_mems[p][a].rank + 1] = a

\* A process holds the object of a block it has freed and has a second block
\* registered: two blocks of its own are mapped, one is in the registry
C15_Witness ==
  \E p \in Ranks :
    /\ Cardinality(OwnMapped(p)) = 2
    /\ Cardinality(DOMAIN ptr_to_block[p]) = 1
    /\ held[p] # {}

\* C17: an object is alive exactly while its block is registered or the caller
\* holds a reference; the step that drops the last one unmaps each of its
\* world_size mappings and releases each handle; and over any sequence of
\* alloc, rendezvous, free and reference release no unmap or release is issued
\* for a range or handle that is no longer mapped or live.
C17_Teardown ==
  /\ [](\A p \in Ranks :
          /\ driver[p].err = "none"
          /\ \A id \in DOMAIN symm_mems[p] :
               Referenced(ptr_to_block[p], held[p], id)
          /\ \A id \in held[p] : id \in DOMAIN symm_mems[p]
          /\ \A ptr \in DOMAIN ptr_to_block[p] :
               ptr_to_block[p][ptr].symm_mem # 0 =>
                 ptr_to_block[p][ptr].symm_mem \in DOMAIN symm_mems[p])
  /\ [][\A p \in Ranks : \A id \in DOMAIN symm_mems[p] :
          id \notin DOMAIN symm_mems'[p] =>
            LET o == symm_mems[p][id] IN
            /\ ~Referenced(ptr_to_block'[p], held'[p], id)
            /\ Usable(p, o)
            /\ \A r \in 1 .. o.world_size :
                 /\ o.buffers[r] \notin DOMAIN vmap'[p]
                 /\ HandleCount(driver'[p].handles, o.handles[r]) =
                      HandleCount(driver[p].handles, o.handles[r]) - 1]_vars

\* In a group of several ranks a process has rendezvoused, freed its block and
\* released its reference: nothing of it is mapped and no handle is live
C17_Witness ==
  /\ world_size >= 2
  /\ \E p \in Ranks :
       /\ call[p].result.status = "ok"
       /\ held[p] = {}
       /\ DOMAIN ptr_to_block[p] = {}
       /\ DOMAIN symm_mems[p] = {}
       /\ DOMAIN vmap[p] = {}
       /\ DOMAIN driver[p].handles = {}

----------------------------------------------------------------------------
(* store_all_gather entered by several host threads of one process, each from *)
(* a rendezvous on a block of its own. store_comm_seq_id is a plain static:   *)
(* its reads and its ++ are unsynchronised, so each read in the key loop and  *)
(* the load and the store of the increment are steps of their own.            *)

MaxThreads == 2

Threads == 1 .. MaxThreads

InitThreads ==
  /\ world_size \in 1 .. MaxWorld
  /\ FnIdle
  /\ DevIdle
  /\ ptr_to_block = <<>>
  /\ store_comm_seq_id = [p \in Ranks |-> 0]
  /\ store = <<>>
  /\ call = <<>>
  /\ fds = <<>>
  /\ vmap = <<>>
  /\ symm_mems = <<>>
  /\ held = <<>>
  /\ driver = <<>>
  /\ last_alloc = <<>>
  /\ th \in {[t \in Threads |->
               [rank |-> p, pc |-> "keys", r |-> 0, peer_keys |-> <<>>, tmp |-> 0]]
             : p \in Ranks}

\* lines 31-35, one iteration: peer_keys.push_back(prefix/seq/r)
store_all_gather_key(t) ==
  /\ th[t].pc = "keys"
  /\ th' = [th EXCEPT ![t] =
       [@ EXCEPT !.peer_keys = Append(@, <<store_comm_seq_id[th[t].rank], th[t].r>>),
                 !.r = @ + 1,
                 !.pc = IF th[t].r + 1 = world_size THEN "inc_load" ELSE "keys"]]
  /\ UNCHANGED <<world_size, fnVars, devVars, ptr_to_block, store_comm_seq_id,
                 store, call, fds, vmap, symm_mems, held, driver, last_alloc>>

\* line 36, ++store_comm_seq_id: the load
store_all_gather_inc_load(t) ==
  /\ th[t].pc = "inc_load"
  /\ th' = [th EXCEPT ![t] =
       [@ EXCEPT !.tmp = store_comm_seq_id[th[t].rank], !.pc = "inc_store"]]
  /\ UNCHANGED <<world_size, fnVars, devVars, ptr_to_block, store_comm_seq_id,
                 store, call, fds, vmap, symm_mems, held, driver, last_alloc>>

\* line 36, ++store_comm_seq_id: the store
store_all_gather_inc_store(t) ==
  /\ th[t].pc = "inc_store"
  /\ store_comm_seq_id' = [store_comm_seq_id EXCEPT ![th[t].rank] = th[t].tmp + 1]
  /\ th' = [th EXCEPT ![t] = [@ EXCEPT !.pc = "set"]]
  /\ UNCHANGED <<world_size, fnVars, devVars, ptr_to_block, store, call, fds,
                 vmap, symm_mems, held, driver, last_alloc>>

\* lines 38-43: store->set(peer_keys[rank], payload); the thread then waits for
\* its peers' keys. The payload is the request of the thread's own block.
store_all_gather_set(t) ==
  /\ th[t].pc = "set"
  /\ store' = (th[t].peer_keys[th[t].rank + 1] :>
                 [size |-> "RendezvousRequest", val |-> t]) @@ store
  /\ th' = [th EXCEPT ![t] = [@ EXCEPT !.pc = "wait"]]
  /\ UNCHANGED <<world_size, fnVars, devVars, ptr_to_block, store_comm_seq_id,
                 call, fds, vmap, symm_mems, held, driver, last_alloc>>

NextThreads ==
  \/ \E t \in Threads : store_all_gather_key(t)
  \/ \E t \in Threads : store_all_gather_inc_load(t)
  \/ \E t \in Threads : store_all_gather_inc_store(t)
  \/ \E t \in Threads : store_all_gather_set(t)

SpecThreads == InitThreads /\ [][NextThreads]_vars

\* The store keys a thread's round publishes and reads under, once published
KeysOf(t) ==
  IF th[t].pc = "wait"
  THEN {th[t].peer_keys[i] : i \in 1 .. Len(th[t].peer_keys)}
  ELSE {}

\* C10: no two rendezvous calls of a process, calls running concurrently on
\* different host threads included, publish or read under the same store key.
C10_NoSharedStoreKey ==
  \A t1, t2 \in Threads : t1 # t2 => KeysOf(t1) \cap KeysOf(t2) = {}

----------------------------------------------------------------------------
(* free() entered by several host threads of one process. find_block holds   *)
(* the shared lock for the lookup only and the erase holds the exclusive     *)
(* lock for the erase only (lines 390-393, 525): the lookup, cuMemUnmap_,    *)
(* cuMemRelease_ and the erase are steps of their own. The blocks are never  *)
(* rendezvoused, so block->symm_mem stays nullptr.                           *)

\* A host thread outside free(): unmaps and releases are the handles it has
\* called cuMemUnmap_ and cuMemRelease_ for, err the driver check that threw
IdleThread ==
  [pc |-> "idle", ptr |-> 0, block |-> <<>>, unmaps |-> {}, releases |-> {},
   err |-> "none"]

InitFree ==
  /\ world_size = 1
  /\ FnIdle
  /\ DevIdle
  /\ ptr_to_block = [p \in Ranks |-> <<>>]
  /\ store_comm_seq_id = [p \in Ranks |-> 0]
  /\ store = <<>>
  /\ call = [p \in Ranks |-> IdleCall]
  /\ fds = [p \in Ranks |-> <<>>]
  /\ vmap = [p \in Ranks |-> <<>>]
  /\ symm_mems = [p \in Ranks |-> <<>>]
  /\ held = [p \in Ranks |-> {}]
  /\ driver = [p \in Ranks |-> NoDriverState]
  /\ last_alloc = [p \in Ranks |-> NoAlloc]
  /\ th = [t \in Threads |-> IdleThread]

\* line 377: auto block = find_block(ptr), and the return of line 379 when
\* the pointer is not registered
free_find_block(t, ptr) ==
  /\ th[t].pc = "idle"
  /\ LET b == find_block(0, ptr) IN
     th' = [th EXCEPT ![t] =
              [@ EXCEPT !.ptr = ptr, !.block = b.block,
                        !.pc = IF b.found THEN "unmap" ELSE "idle"]]
  /\ UNCHANGED <<world_size, fnVars, devVars, ptr_to_block, store_comm_seq_id,
                 store, call, fds, vmap, symm_mems, held, driver, last_alloc>>

\* lines 384-387: the test of block->symm_mem and cuMemUnmap_(ptr, block_size);
\* a failed driver check throws out of free()
free_unmap(t) ==
  /\ th[t].pc = "unmap"
  /\ IF OwnsMapping(th[t].block)
     THEN LET d == cuMemUnmap(DriverView(0), th[t].ptr) IN
          /\ vmap' = [vmap EXCEPT ![0] = d.maps]
          /\ th' = [th EXCEPT ![t] =
                      [@ EXCEPT !.unmaps = @ \cup {th[t].block.handle},
                                !.err = d.err,
                                !.pc = IF d.err = "none" THEN "release"
                                       ELSE "idle"]]
     ELSE /\ th' = [th EXCEPT ![t] = [@ EXCEPT !.pc = "erase"]]
          /\ UNCHANGED vmap
  /\ UNCHANGED <<world_size, fnVars, devVars, ptr_to_block, store_comm_seq_id,
                 store, call, fds, symm_mems, held, driver, last_alloc>>

\* line 388: cuMemRelease_(block->handle)
free_release(t) ==
  /\ th[t].pc = "release"
  /\ LET d == cuMemRelease(DriverView(0), th[t].block.handle) IN
     /\ driver' = [driver EXCEPT ![0] = [@ EXCEPT !.handles = d.handles]]
     /\ th' = [th EXCEPT ![t] =
                 [@ EXCEPT !.releases = @ \cup {th[t].block.handle},
                           !.err = d.err,
                           !.pc = IF d.err = "none" THEN "erase" ELSE "idle"]]
  /\ UNCHANGED <<world_size, fnVars, devVars, ptr_to_block, store_comm_seq_id,
                 store, call, fds, vmap, symm_mems, held, last_alloc>>

\* lines 390-393: ptr_to_block_.erase(ptr) under the exclusive lock
free_erase(t) ==
  /\ th[t].pc = "erase"
  /\ ptr_to_block' = [ptr_to_block EXCEPT ![0] = Erase(@, th[t].ptr)]
  /\ th' = [th EXCEPT ![t] = [@ EXCEPT !.pc = "idle"]]
  /\ UNCHANGED <<world_size, fnVars, devVars, store_comm_seq_id, store, call,
                 fds, vmap, symm_mems, held, driver, last_alloc>>

NextFree ==
  \/ \E size \in AllocSizes : alloc(0, size, 0)
  \/ \E t \in Threads :
       \E ptr \in DOMAIN ptr_to_block[0] \cup {last_alloc[0].ret} :
         free_find_block(t, ptr)
  \/ \E t \in Threads : free_unmap(t)
  \/ \E t \in Threads : free_release(t)
  \/ \E t \in Threads : free_erase(t)

SpecFree == InitFree /\ [][NextFree]_vars

\* C21: of the host threads calling free() on one never-rendezvoused pointer,
\* one alone unmaps and releases the block: no two threads call cuMemUnmap_
\* or cuMemRelease_ for the same handle, and no free() fails a driver check.
C21_FreeReleasesOnce ==
  /\ \A t1, t2 \in Threads :
       t1 # t2 => /\ th[t1].unmaps \cap th[t2].unmaps = {}
                  /\ th[t1].releases \cap th[t2].releases = {}
  /\ \A t \in Threads : th[t].err = "none"

====
